---- MODULE Spec2Model ----
(***************************************************************************)
(* Broadcast timeline assembly of live-news-break (src/src/main.py).       *)
(*                                                                         *)
(* Audio is modelled by content, not only by length: an AudioSegment is a  *)
(* sequence of runs, each run [dur, srcs] lasting dur milliseconds and     *)
(* carrying, for every source sounding in it, the source's id and the      *)
(* position inside the source at which the run starts.  Concatenation,     *)
(* slicing, overlay and silence are the pydub operations main.py uses.     *)
(* Times are integer milliseconds; main.py keeps total_elapsed_time in     *)
(* float seconds and multiplies by 1000 at each use.                       *)
(***************************************************************************)
EXTENDS Integers, Sequences, FiniteSets, TLC

VARIABLES
    pc,                     \* position of generate_news_audio
    environ,                \* os.environ: variable name -> value
    fs,                     \* the file system: the set of existing paths
    script_sections,        \* the script after splitting on the placeholders
    audio_files,            \* check_audio_files(): key -> resolved path
    vo_segments_text,       \* the narration texts handed to the provider
    vo_segments,            \* the provider's audio, one per narration text
    final_audio,            \* the timeline buffer
    current_index,
    current_speech_segment,
    total_elapsed_time,     \* the cursor, in ms
    timestamps,
    lyrics_text,
    article_start_time,     \* <<>> is None, <<t>> is t
    article_end_time,
    looped_bed_audio,
    published,              \* the targets the finished artifact went to
    error,                  \* the exception that ended the run, "" when none
    mixlog,                 \* history: one record per mixing step
    call                    \* one call of generate_mixed_audio_and_track_timestamps

vars == <<pc, environ, fs, script_sections, audio_files, vo_segments_text,
          vo_segments, final_audio, current_index, current_speech_segment,
          total_elapsed_time, timestamps, lyrics_text, article_start_time,
          article_end_time, looped_bed_audio, published, error, mixlog, call>>

-----------------------------------------------------------------------------
(* Bounds of the model *)

\* the grain of every duration and offset drawn, in ms
Tick == 500
\* sections in a script
MaxSections == 4
\* cue sections in a script
MaxCues == 2
\* longest clip, in ticks, handed to the mixing function on its own
MaxTicks == 6

Min(a, b) == IF a < b THEN a ELSE b
Max(a, b) == IF a > b THEN a ELSE b

-----------------------------------------------------------------------------
(* pydub.AudioSegment *)

None == <<>>
Some(v) == <<v>>

RECURSIVE len(_)
len(a) == IF a = <<>> THEN 0 ELSE a[1].dur + len(Tail(a))

empty == <<>>

\* a clip read from a file or returned by the provider: one source, from its start
Clip(id, n) == IF n = 0 THEN <<>> ELSE <<[dur |-> n, srcs |-> {[id |-> id, at |-> 0]}]>>

silent(duration) == IF duration = 0 THEN <<>> ELSE <<[dur |-> duration, srcs |-> {}]>>

Shift(srcs, k) == {[id |-> s.id, at |-> s.at + k] : s \in srcs}

\* a[k:] for 0 <= k
RECURSIVE SliceFrom(_, _)
SliceFrom(a, k) ==
    IF a = <<>> \/ k = 0 THEN a
    ELSE IF k >= a[1].dur THEN SliceFrom(Tail(a), k - a[1].dur)
    ELSE <<[dur |-> a[1].dur - k, srcs |-> Shift(a[1].srcs, k)]>> \o Tail(a)

\* a[:k] for 0 <= k
RECURSIVE SliceTo(_, _)
SliceTo(a, k) ==
    IF a = <<>> \/ k = 0 THEN <<>>
    ELSE IF k >= a[1].dur THEN <<a[1]>> \o SliceTo(Tail(a), k - a[1].dur)
    ELSE <<[dur |-> k, srcs |-> a[1].srcs]>>

\* AudioSegment._parse_position: a negative position counts from the end
ParsePosition(a, p) == IF p < 0 THEN len(a) - (0 - p) ELSE p

\* a[start:stop]: both ends are capped at len(a), then parsed
Slice(a, start, stop) ==
    LET s == ParsePosition(a, Min(start, len(a)))
        e == ParsePosition(a, Min(stop, len(a)))
    IN  IF s < 0 \/ e <= s THEN <<>> ELSE SliceTo(SliceFrom(a, s), e - s)

\* the sample-wise sum of x and y over the length of x; y is cut to fit
RECURSIVE MixInto(_, _)
MixInto(x, y) ==
    IF x = <<>> THEN <<>>
    ELSE IF y = <<>> THEN x
    ELSE LET d == Min(x[1].dur, y[1].dur)
         IN  <<[dur |-> d, srcs |-> x[1].srcs \cup y[1].srcs]>>
             \o MixInto(SliceFrom(x, d), SliceFrom(y, d))

\* a.overlay(b, position): as long as a; b sounds from position on, cut at a's end
overlay(a, b, position) ==
    Slice(a, 0, position) \o MixInto(Slice(a, position, len(a)), b)

\* a + b
Concat(a, b) == a \o b

\* the position in a at which sample `at` of source id sounds, as a set (empty: it does not)
RECURSIVE Positions(_, _, _, _)
Positions(a, id, at, base) ==
    IF a = <<>> THEN {}
    ELSE {base + (at - s.at) : s \in {s \in a[1].srcs :
                s.id = id /\ s.at <= at /\ at < s.at + a[1].dur}}
         \cup Positions(Tail(a), id, at, base + a[1].dur)

\* how many ms of source id sound in a
RECURSIVE Amount(_, _)
Amount(a, id) ==
    IF a = <<>> THEN 0
    ELSE (IF \E s \in a[1].srcs : s.id = id THEN a[1].dur ELSE 0) + Amount(Tail(a), id)

-----------------------------------------------------------------------------
(* Strings *)

\* str.lower() on the timing values that occur
Lower(s) == IF s \in {"None", "NONE", "none"} THEN "none" ELSE s

\* the durations and offsets the model draws
Durations == {Tick * i : i \in 0..MaxTicks}

\* the integers a numeral of the model can stand for
Offsets == Durations \cup {0 - d : d \in Durations}

\* int(s) on a decimal numeral, with or without a sign
IntOf(s) == CHOOSE n \in Offsets : ToString(n) = s

-----------------------------------------------------------------------------
(* generate_mixed_audio_and_track_timestamps *)

\* AudioSegment.from_file(path): the clip in the file; its length is set by FileLen
FileLen(path) == IF path = "BED.wav" THEN 3 * Tick
                 ELSE IF path \in {"INTRO.wav", "OUTRO.wav"} THEN 6 * Tick
                 ELSE 4 * Tick

from_file(path) == Clip(path, FileLen(path))

\* timing_offset > sfx_duration: silence fills the gap between cue and narration
MixPadded_NoSilence(sfx_audio, speech_audio, timing_offset, start_offset) ==
    [combined_audio |-> Concat(sfx_audio, speech_audio),
     speech_start_time |-> start_offset + timing_offset]

MixPadded_RelativeStart(sfx_audio, speech_audio, timing_offset, start_offset) ==
    LET sfx_duration == len(sfx_audio)
        padding == timing_offset - sfx_duration
    IN  [combined_audio |-> Concat(Concat(sfx_audio, silent(padding)), speech_audio),
         speech_start_time |-> sfx_duration + padding]

MixPadded(sfx_audio, speech_audio, timing_offset, start_offset) ==
    LET sfx_duration == len(sfx_audio)
        padding == timing_offset - sfx_duration
    IN  [combined_audio |-> Concat(Concat(sfx_audio, silent(padding)), speech_audio),
         speech_start_time |-> start_offset + sfx_duration + padding]

\* timing_offset <= sfx_duration: the narration is laid over the cue, its rest appended
MixOverlaid_Truncated(sfx_audio, speech_audio, timing_offset, start_offset) ==
    [combined_audio |-> overlay(sfx_audio, speech_audio, timing_offset),
     speech_start_time |-> start_offset + timing_offset]

MixOverlaid_StartAtCue(sfx_audio, speech_audio, timing_offset, start_offset) ==
    LET sfx_duration == len(sfx_audio)
        speech_duration == len(speech_audio)
        overlaid == overlay(sfx_audio, speech_audio, timing_offset)
    IN  [combined_audio |->
             IF timing_offset + speech_duration > sfx_duration
             THEN Concat(overlaid, Slice(speech_audio, sfx_duration - timing_offset,
                                         len(speech_audio)))
             ELSE overlaid,
         speech_start_time |-> start_offset]

MixOverlaid(sfx_audio, speech_audio, timing_offset, start_offset) ==
    LET sfx_duration == len(sfx_audio)
        speech_duration == len(speech_audio)
        overlaid == overlay(sfx_audio, speech_audio, timing_offset)
    IN  [combined_audio |->
             IF timing_offset + speech_duration > sfx_duration
             THEN Concat(overlaid, Slice(speech_audio, sfx_duration - timing_offset,
                                         len(speech_audio)))
             ELSE overlaid,
         speech_start_time |-> start_offset + timing_offset]

\* timing is "none": the narration follows the cue
MixAppended_Overlay(sfx_audio, speech_audio, start_offset) ==
    [combined_audio |-> overlay(sfx_audio, speech_audio, 0),
     speech_start_time |-> start_offset + len(sfx_audio)]

MixAppended(sfx_audio, speech_audio, start_offset) ==
    [combined_audio |-> Concat(sfx_audio, speech_audio),
     speech_start_time |-> start_offset + len(sfx_audio)]

\* the body, on the decoded cue clip; speech_start_time is kept in ms
MixedAudio(sfx_audio, speech_audio, timing, start_offset) ==
    IF Lower(timing) # "none"
    THEN IF IntOf(timing) > len(sfx_audio)
         THEN MixPadded(sfx_audio, speech_audio, IntOf(timing), start_offset)
         ELSE MixOverlaid(sfx_audio, speech_audio, IntOf(timing), start_offset)
    ELSE MixAppended(sfx_audio, speech_audio, start_offset)

generate_mixed_audio_and_track_timestamps(sfx_file, speech_audio, timing, start_offset) ==
    MixedAudio(from_file(sfx_file), speech_audio, timing, start_offset)

-----------------------------------------------------------------------------
(* format_timestamp *)

\* round(n / 10) to the nearest integer, a tie to the even one
RoundTenth(n) ==
    LET q == n \div 10
        r == n % 10
    IN  IF r < 5 THEN q ELSE IF r > 5 THEN q + 1 ELSE IF q % 2 = 0 THEN q ELSE q + 1

\* format_timestamp(ms / 1000): the minutes field and the seconds field in hundredths
format_timestamp(ms) ==
    [minutes |-> ms \div 60000, hundredths |-> RoundTenth(ms % 60000)]

Pad2(n) == IF n < 10 THEN "0" \o ToString(n) ELSE ToString(n)

\* the text "MM:SS.ss" of a formatted timestamp
TimestampText(t) ==
    Pad2(t.minutes) \o ":" \o Pad2(t.hundredths \div 100) \o "." \o Pad2(t.hundredths % 100)

TimestampOrder(t) == t.minutes * 6000 + t.hundredths

-----------------------------------------------------------------------------
(* Configuration tables *)

INTRO_PLACEHOLDER == "[SFX: NEWS INTRO]"
ARTICLE_START_PLACEHOLDER == "[SFX: ARTICLE START]"
ARTICLE_BREAK_PLACEHOLDER == "[SFX: ARTICLE BREAK]"
OUTRO_PLACEHOLDER == "[SFX: NEWS OUTRO]"

placeholder_to_key ==
    (INTRO_PLACEHOLDER :> "INTRO") @@ (ARTICLE_START_PLACEHOLDER :> "FIRST") @@
    (ARTICLE_BREAK_PLACEHOLDER :> "BREAK") @@ (OUTRO_PLACEHOLDER :> "OUTRO")

Placeholders == DOMAIN placeholder_to_key

AUDIO_FILES_ENV ==
    [k \in {"INTRO", "OUTRO", "BREAK", "FIRST", "BED"} |-> "NEWS_READER_AUDIO_" \o k]

TIMINGS_ENV ==
    [k \in {"INTRO", "OUTRO", "BREAK", "FIRST", "BED"} |-> "NEWS_READER_TIMING_" \o k]

\* os.getenv(name, default)
getenv(name, default) == IF name \in DOMAIN environ THEN environ[name] ELSE default

get_timing_value(env_key) == getenv(env_key, "None")

-----------------------------------------------------------------------------
(* Resolving the cue and bed files *)

BasePath(k) == k \o ".wav"
NumberedPath(k) == k \o "_1.wav"

\* parent.glob(stem_*suffix): the numbered siblings of file_path that exist
numbered_files(file_path) ==
    {NumberedPath(k) : k \in {k \in DOMAIN AUDIO_FILES_ENV : BasePath(k) = file_path}} \cap fs

\* the values get_random_file can return: the path itself, any numbered sibling, or None
get_random_file(file_path) ==
    IF file_path \in fs THEN {Some(file_path)}
    ELSE IF numbered_files(file_path) # {} THEN {Some(p) : p \in numbered_files(file_path)}
    ELSE {None}

\* the dictionaries over `keys` whose every entry is a path get_random_file can return
RECURSIVE Resolutions(_)
Resolutions(keys) ==
    IF keys = {} THEN {<<>>}
    ELSE LET k == CHOOSE k \in keys : TRUE
         IN  {(k :> p[1]) @@ d :
                 p \in get_random_file(environ[AUDIO_FILES_ENV[k]]),
                 d \in Resolutions(keys \ {k})}

\* check_audio_files(): the dictionaries it can return
checked_files ==
    Resolutions({k \in DOMAIN AUDIO_FILES_ENV :
                    /\ AUDIO_FILES_ENV[k] \in DOMAIN environ
                    /\ get_random_file(environ[AUDIO_FILES_ENV[k]]) # {None}})

\* dict.get(key, None)
dict_get(d, key) == IF key \in DOMAIN d THEN Some(d[key]) ELSE None

-----------------------------------------------------------------------------
(* The inputs of a run *)

\* a script's shape: each section a placeholder or a narration text "T"
Shapes ==
    {s \in UNION {[1..n -> Placeholders \cup {"T"}] : n \in 0..MaxSections} :
        /\ Cardinality({i \in DOMAIN s : s[i] \in Placeholders}) <= MaxCues
        \* pattern.split leaves no two narration fragments side by side
        /\ \A i \in DOMAIN s : i > 1 => ~(s[i] = "T" /\ s[i - 1] = "T")}

\* the narration fragments are told apart by their place in the script
Sections(shape) ==
    [i \in DOMAIN shape |->
        IF shape[i] = "T"
        THEN "text" \o ToString(Cardinality({j \in 1..i : shape[j] = "T"}))
        ELSE shape[i]]

Scripts == {Sections(s) : s \in Shapes}

IsPlaceholder(section) == section \in Placeholders

CueKeys(script) ==
    {placeholder_to_key[script[i]] : i \in {i \in DOMAIN script : IsPlaceholder(script[i])}}

\* the timing values configured for a cue: unset, inside the clip, past the clip
TimingChoices == {"unset", ToString(Tick), ToString(5 * Tick)}

\* how a configured file is found: the intro, outro and bed as named or not at all, the
\* article cues as a numbered sibling or not at all
FileChoices(k) == IF k \in {"FIRST", "BREAK"} THEN {"numbered", "missing"}
                  ELSE {"base", "missing"}

\* the music bed of a run: no file, or the file with its offset unset, before or after
\* the start of the article
BedChoices == {"missing", "unset", ToString(0 - Tick), ToString(Tick)}

\* article_end_time is only ever set by an OUTRO cue: for a script without one the bed
\* stage is skipped whatever the bed, and the bed is drawn as missing or present
BedChoicesFor(script) ==
    IF "OUTRO" \in CueKeys(script) THEN BedChoices ELSE {"missing", "unset"}

\* the environment and files of a run: only the cues of the script are configured
Environ(keys, timing, bed) ==
    LET audio == {AUDIO_FILES_ENV[k] :
                     k \in keys \cup (IF bed # "missing" THEN {"BED"} ELSE {})}
        timed == {TIMINGS_ENV[k] : k \in {k \in keys : timing[k] # "unset"}}
        bedtimed == IF bed \in {"missing", "unset"} THEN {} ELSE {TIMINGS_ENV["BED"]}
    IN  [n \in audio \cup timed \cup bedtimed |->
            IF n \in audio
            THEN BasePath(CHOOSE k \in DOMAIN AUDIO_FILES_ENV : AUDIO_FILES_ENV[k] = n)
            ELSE IF n \in bedtimed THEN bed
            ELSE timing[CHOOSE k \in keys : TIMINGS_ENV[k] = n]]

Files(keys, file, bed) ==
    {BasePath(k) : k \in {k \in keys : file[k] = "base"}}
    \cup {NumberedPath(k) : k \in {k \in keys : file[k] = "numbered"}}
    \cup (IF bed # "missing" THEN {BasePath("BED")} ELSE {})

\* the narration lengths the provider returns
SpeechLens == {2 * Tick, 6 * Tick}

\* process_text_for_tts: the text after the lexicon
process_text_for_tts(text) == "tts:" \o text

\* the id of the audio the provider returns for a text
VoiceOf(tts_text) == "voice:" \o tts_text

IdleCall == [state |-> "idle"]

Init ==
    /\ pc = "check_audio_files"
    /\ script_sections \in Scripts
    /\ \E timing \in [CueKeys(script_sections) -> TimingChoices],
          file \in [CueKeys(script_sections) -> {"base", "numbered", "missing"}],
          bed \in BedChoicesFor(script_sections) :
            /\ \A k \in CueKeys(script_sections) : file[k] \in FileChoices(k)
            /\ environ = Environ(CueKeys(script_sections), timing, bed)
            /\ fs = Files(CueKeys(script_sections), file, bed)
    /\ audio_files = <<>>
    /\ vo_segments_text = <<>>
    /\ vo_segments = <<>>
    /\ final_audio = empty
    /\ current_index = 0
    /\ current_speech_segment = 0
    /\ total_elapsed_time = 0
    /\ timestamps = <<>>
    /\ lyrics_text = <<>>
    /\ article_start_time = None
    /\ article_end_time = None
    /\ looped_bed_audio = empty
    /\ published = {}
    /\ error = ""
    /\ mixlog = <<>>
    /\ call = IdleCall

-----------------------------------------------------------------------------
(* generate_news_audio, from check_audio_files on *)

CheckAudioFiles ==
    /\ pc = "check_audio_files"
    /\ audio_files' \in checked_files
    /\ pc' = "synthesize"
    /\ UNCHANGED <<environ, fs, script_sections, vo_segments_text, vo_segments,
                   final_audio, current_index, current_speech_segment,
                   total_elapsed_time, timestamps, lyrics_text, article_start_time,
                   article_end_time, looped_bed_audio, published, error, mixlog, call>>

\* the narration sections in script order, after the lexicon
NarrationTexts ==
    LET texts == SelectSeq(script_sections, LAMBDA s : ~IsPlaceholder(s))
    IN  [k \in DOMAIN texts |-> process_text_for_tts(texts[k])]

\* the provider returns one clip per text, in the order of the texts
Synthesize ==
    /\ pc = "synthesize"
    /\ vo_segments_text' = NarrationTexts
    /\ \E durs \in [DOMAIN NarrationTexts -> SpeechLens] :
          vo_segments' = [k \in DOMAIN NarrationTexts |->
                              Clip(VoiceOf(NarrationTexts[k]), durs[k])]
    /\ pc' = "mix"
    /\ UNCHANGED <<environ, fs, script_sections, audio_files, final_audio,
                   current_index, current_speech_segment, total_elapsed_time,
                   timestamps, lyrics_text, article_start_time, article_end_time,
                   looped_bed_audio, published, error, mixlog, call>>

\* the provider call raises
SynthesizeFails ==
    /\ pc = "synthesize"
    /\ vo_segments_text' = NarrationTexts
    /\ pc' = "failed"
    /\ error' = "Exception"
    /\ UNCHANGED <<environ, fs, script_sections, audio_files, vo_segments, final_audio,
                   current_index, current_speech_segment, total_elapsed_time,
                   timestamps, lyrics_text, article_start_time, article_end_time,
                   looped_bed_audio, published, mixlog, call>>

-----------------------------------------------------------------------------
(* The mixing loop *)

\* script_sections[current_index], the list being 0-based in main.py
section == script_sections[current_index + 1]

sfx_key == placeholder_to_key[section]

sfx_file == dict_get(audio_files, sfx_key)

timing_value == get_timing_value(TIMINGS_ENV[sfx_key])

InLoop == pc = "mix" /\ current_index < Len(script_sections)

\* vo_segments[current_speech_segment] raises IndexError
SegmentMissing == current_speech_segment >= Len(vo_segments)

\* current_speech_segment += 1, at the end of every iteration
NextSpeechSegment == current_speech_segment + 1

\* what one iteration leaves alone
LoopFrame == UNCHANGED <<environ, fs, script_sections, audio_files, vo_segments_text,
                         vo_segments, looped_bed_audio, published, call>>

\* if sfx_key == "OUTRO" and article_end_time is None: the cursor, else no change
next_article_end_time_Reassigned ==
    IF sfx_key = "OUTRO" THEN Some(total_elapsed_time) ELSE article_end_time

next_article_end_time ==
    IF sfx_key = "OUTRO" /\ article_end_time = None
    THEN Some(total_elapsed_time) ELSE article_end_time

\* total_elapsed_time += len(audio) / 1000
elapsed_after_Seconds(audio) == total_elapsed_time + len(audio) \div 1000

elapsed_after(audio) == total_elapsed_time + len(audio)

\* a cue with a file and a section after it
MixPaired ==
    /\ InLoop
    /\ IsPlaceholder(section)
    /\ sfx_file # None
    /\ current_index + 1 < Len(script_sections)
    /\ ~SegmentMissing
    /\ LET speech_text == script_sections[current_index + 2]
           speech_audio == vo_segments[current_speech_segment + 1]
           mixed == generate_mixed_audio_and_track_timestamps(
                        sfx_file[1], speech_audio, timing_value, total_elapsed_time)
           mixed_audio == mixed.combined_audio
       IN  /\ final_audio' = Concat(final_audio, mixed_audio)
           /\ current_index' = current_index + 2
           /\ article_end_time' = next_article_end_time
           /\ article_start_time' =
                 IF sfx_key = "FIRST" /\ article_start_time = None
                 THEN Some(total_elapsed_time
                           + (IF Lower(timing_value) # "none" THEN IntOf(timing_value) ELSE 0))
                 ELSE article_start_time
           /\ timestamps' = Append(timestamps, format_timestamp(mixed.speech_start_time))
           /\ lyrics_text' = Append(lyrics_text, speech_text)
           /\ total_elapsed_time' = elapsed_after(mixed_audio)
           /\ mixlog' = Append(mixlog,
                 [kind |-> "paired", index |-> current_index + 1,
                  seg |-> current_speech_segment, cursor |-> total_elapsed_time,
                  sfx |-> len(from_file(sfx_file[1])), timing |-> timing_value,
                  speech |-> len(speech_audio), combined |-> len(mixed_audio)])
    /\ current_speech_segment' = NextSpeechSegment
    /\ UNCHANGED <<pc, error>>
    /\ LoopFrame

\* a cue with a file and nothing after it
MixTrailingCue_Skip ==
    /\ InLoop
    /\ IsPlaceholder(section)
    /\ sfx_file # None
    /\ ~(current_index + 1 < Len(script_sections))
    /\ current_index' = current_index + 1
    /\ current_speech_segment' = NextSpeechSegment
    /\ UNCHANGED <<pc, error, final_audio, total_elapsed_time, timestamps, lyrics_text,
                   article_start_time, article_end_time, mixlog>>
    /\ LoopFrame

MixTrailingCue ==
    /\ InLoop
    /\ IsPlaceholder(section)
    /\ sfx_file # None
    /\ ~(current_index + 1 < Len(script_sections))
    /\ pc' = "failed"
    /\ error' = "ValueError"
    /\ UNCHANGED <<final_audio, current_index, current_speech_segment, total_elapsed_time,
                   timestamps, lyrics_text, article_start_time, article_end_time, mixlog>>
    /\ LoopFrame

\* the skip without its current_index += 1
MixSkipCue_Stay ==
    /\ InLoop
    /\ IsPlaceholder(section)
    /\ sfx_file = None
    /\ current_speech_segment' = NextSpeechSegment
    /\ UNCHANGED <<pc, error, final_audio, current_index, total_elapsed_time, timestamps,
                   lyrics_text, article_start_time, article_end_time, mixlog>>
    /\ LoopFrame

\* a cue without a file: a warning, and on to the next section
MixSkipCue ==
    /\ InLoop
    /\ IsPlaceholder(section)
    /\ sfx_file = None
    /\ current_index' = current_index + 1
    /\ current_speech_segment' = NextSpeechSegment
    /\ UNCHANGED <<pc, error, final_audio, total_elapsed_time, timestamps, lyrics_text,
                   article_start_time, article_end_time, mixlog>>
    /\ LoopFrame

\* a narration section on its own
MixPlain ==
    /\ InLoop
    /\ ~IsPlaceholder(section)
    /\ ~SegmentMissing
    /\ LET speech_audio == vo_segments[current_speech_segment + 1]
       IN  /\ final_audio' = Concat(final_audio, speech_audio)
           /\ current_index' = current_index + 1
           /\ article_start_time' =
                 IF article_start_time = None
                 THEN Some(total_elapsed_time) ELSE article_start_time
           /\ total_elapsed_time' = elapsed_after(speech_audio)
           /\ timestamps' = Append(timestamps, format_timestamp(total_elapsed_time'))
           /\ lyrics_text' = Append(lyrics_text, section)
           /\ mixlog' = Append(mixlog,
                 [kind |-> "plain", index |-> current_index,
                  seg |-> current_speech_segment, cursor |-> total_elapsed_time,
                  sfx |-> 0, timing |-> "None",
                  speech |-> len(speech_audio), combined |-> len(speech_audio)])
    /\ current_speech_segment' = NextSpeechSegment
    /\ UNCHANGED <<pc, error, article_end_time>>
    /\ LoopFrame

\* vo_segments[current_speech_segment] is out of range, in either branch that reads it
MixIndexError ==
    /\ InLoop
    /\ IF IsPlaceholder(section)
       THEN sfx_file # None /\ current_index + 1 < Len(script_sections)
       ELSE TRUE
    /\ SegmentMissing
    /\ pc' = "failed"
    /\ error' = "IndexError"
    /\ UNCHANGED <<final_audio, current_index, current_speech_segment, total_elapsed_time,
                   timestamps, lyrics_text, article_start_time, article_end_time, mixlog>>
    /\ LoopFrame

\* the loop condition fails
MixDone ==
    /\ pc = "mix"
    /\ ~(current_index < Len(script_sections))
    /\ pc' = "bed"
    /\ UNCHANGED <<error, final_audio, current_index, current_speech_segment,
                   total_elapsed_time, timestamps, lyrics_text, article_start_time,
                   article_end_time, mixlog>>
    /\ LoopFrame

-----------------------------------------------------------------------------
(* The music bed *)

bed_file == dict_get(audio_files, "BED")

\* the same test by truthiness, under which an instant of 0 would count as missing
BedRuns_Truthy ==
    /\ bed_file # None
    /\ article_start_time # None /\ article_start_time[1] # 0
    /\ article_end_time # None /\ article_end_time[1] # 0

BedRuns == bed_file # None /\ article_start_time # None /\ article_end_time # None

bed_duration == article_end_time[1] - article_start_time[1]

\* int(os.getenv(TIMINGS_ENV["BED"], 0) or 0)
bed_offset == IF TIMINGS_ENV["BED"] \in DOMAIN environ
              THEN IntOf(environ[TIMINGS_ENV["BED"]]) ELSE 0

adjusted_article_start_time_Unclamped == article_start_time[1] + bed_offset

adjusted_article_start_time == Max(0, article_start_time[1] + bed_offset)

BedFrame == UNCHANGED <<environ, fs, script_sections, audio_files, vo_segments_text,
                        vo_segments, current_index, current_speech_segment,
                        total_elapsed_time, timestamps, lyrics_text, article_start_time,
                        article_end_time, published, error, mixlog, call>>

\* no bed file, or no article span: the stage is skipped
BedSkip ==
    /\ pc = "bed"
    /\ ~BedRuns
    /\ pc' = "export"
    /\ UNCHANGED <<final_audio, looped_bed_audio>>
    /\ BedFrame

BedBegin ==
    /\ pc = "bed"
    /\ BedRuns
    /\ looped_bed_audio' = empty
    /\ pc' = "bed_loop"
    /\ UNCHANGED final_audio
    /\ BedFrame

\* while len(looped_bed_audio) < bed_duration: looped_bed_audio += bed_audio
BedLoop ==
    /\ pc = "bed_loop"
    /\ len(looped_bed_audio) < bed_duration
    /\ looped_bed_audio' = Concat(looped_bed_audio, from_file(bed_file[1]))
    /\ UNCHANGED <<pc, final_audio>>
    /\ BedFrame

\* the cut to bed_duration, gain and fades (which keep length and sources), the overlay
BedOverlay ==
    /\ pc = "bed_loop"
    /\ ~(len(looped_bed_audio) < bed_duration)
    /\ looped_bed_audio' = Slice(looped_bed_audio, 0, bed_duration)
    /\ final_audio' = overlay(final_audio, looped_bed_audio', adjusted_article_start_time)
    /\ pc' = "export"
    /\ BedFrame

-----------------------------------------------------------------------------
(* Export and publication *)

ExportFrame == UNCHANGED <<environ, fs, script_sections, audio_files, vo_segments_text,
                           vo_segments, final_audio, current_index,
                           current_speech_segment, total_elapsed_time, timestamps,
                           lyrics_text, article_start_time, article_end_time,
                           looped_bed_audio, mixlog, call>>

\* export, loudness tags and metadata, all in memory
Export ==
    /\ pc = "export"
    /\ pc' = "azuracast"
    /\ UNCHANGED <<published, error>>
    /\ ExportFrame

\* export or loudness analysis raises before anything is uploaded
ExportFails ==
    /\ pc = "export"
    /\ pc' = "failed"
    /\ error' = "Exception"
    /\ UNCHANGED published
    /\ ExportFrame

\* azuracast_client.upload_file: the file is uploaded, or the client is not configured
\* or a RequestException is logged, and the run goes on
UploadAzuraCast ==
    /\ pc = "azuracast"
    /\ \E uploaded \in BOOLEAN :
          published' = published \cup (IF uploaded THEN {"azuracast"} ELSE {})
    /\ pc' = "azuracast_metadata"
    /\ UNCHANGED error
    /\ ExportFrame

\* azuracast_client.update_track_metadata returns
UpdateTrackMetadata ==
    /\ pc = "azuracast_metadata"
    /\ pc' = "s3"
    /\ UNCHANGED <<published, error>>
    /\ ExportFrame

\* _perform_request raises in update_track_metadata: nothing catches it before main
UpdateTrackMetadataFails ==
    /\ pc = "azuracast_metadata"
    /\ pc' = "failed"
    /\ error' = "HTTPError"
    /\ UNCHANGED published
    /\ ExportFrame

\* s3_client.upload_file returns True or, after a logged error, False
UploadS3 ==
    /\ pc = "s3"
    /\ \E s3_success \in BOOLEAN :
          published' = published \cup (IF s3_success THEN {"s3"} ELSE {})
    /\ pc' = "file"
    /\ UNCHANGED error
    /\ ExportFrame

\* NEWS_READER_OUTPUT_FILE is set and the output directory is writable
WriteOutputFile ==
    /\ pc = "file"
    /\ published' = published \cup {"file"}
    /\ pc' = "done"
    /\ UNCHANGED error
    /\ ExportFrame

\* NEWS_READER_OUTPUT_FILE is not set
NoOutputFile ==
    /\ pc = "file"
    /\ pc' = "done"
    /\ UNCHANGED <<published, error>>
    /\ ExportFrame

\* the output directory is not writable
WriteOutputFileFails ==
    /\ pc = "file"
    /\ pc' = "failed"
    /\ error' = "PermissionError"
    /\ UNCHANGED published
    /\ ExportFrame

Next ==
    \/ CheckAudioFiles
    \/ Synthesize
    \/ SynthesizeFails
    \/ MixPaired
    \/ MixTrailingCue
    \/ MixSkipCue
    \/ MixPlain
    \/ MixIndexError
    \/ MixDone
    \/ BedSkip
    \/ BedBegin
    \/ BedLoop
    \/ BedOverlay
    \/ Export
    \/ ExportFails
    \/ UploadAzuraCast
    \/ UpdateTrackMetadata
    \/ UpdateTrackMetadataFails
    \/ UploadS3
    \/ WriteOutputFile
    \/ NoOutputFile
    \/ WriteOutputFileFails

Spec == Init /\ [][Next]_vars

-----------------------------------------------------------------------------
(* generate_mixed_audio_and_track_timestamps on its own *)

\* the timing values a call is given: the sentinel in three spellings, or an offset
CallTimings == {"None", "none", "NONE"} \cup {ToString(d) : d \in Durations}

MixInit ==
    /\ pc = "idle"
    /\ environ = <<>>
    /\ fs = {}
    /\ script_sections = <<>>
    /\ audio_files = <<>>
    /\ vo_segments_text = <<>>
    /\ vo_segments = <<>>
    /\ final_audio = empty
    /\ current_index = 0
    /\ current_speech_segment = 0
    /\ total_elapsed_time = 0
    /\ timestamps = <<>>
    /\ lyrics_text = <<>>
    /\ article_start_time = None
    /\ article_end_time = None
    /\ looped_bed_audio = empty
    /\ published = {}
    /\ error = ""
    /\ mixlog = <<>>
    /\ \E sfx \in Durations, speech \in Durations, timing \in CallTimings,
          start_offset \in {0, Tick, 121 * Tick} :
            call = [state |-> "called", sfx_audio |-> Clip("sfx", sfx),
                    speech_audio |-> Clip("speech", speech), timing |-> timing,
                    start_offset |-> start_offset, combined_audio |-> empty,
                    speech_start_time |-> 0]

MixCall ==
    /\ call.state = "called"
    /\ LET mixed == MixedAudio(call.sfx_audio, call.speech_audio, call.timing,
                               call.start_offset)
       IN  call' = [call EXCEPT !.state = "returned",
                                !.combined_audio = mixed.combined_audio,
                                !.speech_start_time = mixed.speech_start_time]
    /\ UNCHANGED <<pc, environ, fs, script_sections, audio_files, vo_segments_text,
                   vo_segments, final_audio, current_index, current_speech_segment,
                   total_elapsed_time, timestamps, lyrics_text, article_start_time,
                   article_end_time, looped_bed_audio, published, error, mixlog>>

MixNext == MixCall

MixSpec == MixInit /\ [][MixNext]_vars

-----------------------------------------------------------------------------
(* openai_segments_to_speech on its own *)

\* what a call on its own leaves alone: the run's variables stay as constructed
CallFrame == UNCHANGED <<pc, environ, fs, script_sections, audio_files, vo_segments_text,
                         vo_segments, final_audio, current_index, current_speech_segment,
                         total_elapsed_time, timestamps, lyrics_text, article_start_time,
                         article_end_time, looped_bed_audio, published, error, mixlog>>

NoRun ==
    /\ pc = "idle"
    /\ environ = <<>>
    /\ fs = {}
    /\ script_sections = <<>>
    /\ audio_files = <<>>
    /\ vo_segments_text = <<>>
    /\ vo_segments = <<>>
    /\ final_audio = empty
    /\ current_index = 0
    /\ current_speech_segment = 0
    /\ total_elapsed_time = 0
    /\ timestamps = <<>>
    /\ lyrics_text = <<>>
    /\ article_start_time = None
    /\ article_end_time = None
    /\ looped_bed_audio = empty
    /\ published = {}
    /\ error = ""
    /\ mixlog = <<>>

\* the texts a script's narration sections can have after the lexicon; two sections of
\* a script may carry the same text
SegmentTexts == {process_text_for_tts("text1"), process_text_for_tts("text2")}

SegmentLists == UNION {[1..n -> SegmentTexts] : n \in 0..MaxSections}

\* the call starts with the cache directory as an earlier run left it: `requests` are the
\* texts sent to the provider, `cache` the files of the cache directory
TtsInit ==
    /\ NoRun
    /\ \E segments \in SegmentLists :
          call = [state |-> "tts", segments |-> segments, i |-> 0,
                  audio_segments |-> <<>>, requests |-> <<>>, cache |-> {}]

\* one iteration: openai_client.audio.speech.create for the segment, decode, normalise,
\* append; the cache is neither read nor written
TtsRequest ==
    /\ call.state = "tts"
    /\ call.i < Len(call.segments)
    /\ \E n \in SpeechLens :
          call' = [call EXCEPT
                      !.requests = Append(@, call.segments[call.i + 1]),
                      !.audio_segments =
                          Append(@, Clip(VoiceOf(call.segments[call.i + 1]), n)),
                      !.i = @ + 1]
    /\ CallFrame

\* the request raises: the exception leaves the function
TtsRaise ==
    /\ call.state = "tts"
    /\ call.i < Len(call.segments)
    /\ call' = [call EXCEPT !.state = "raised",
                            !.requests = Append(@, call.segments[call.i + 1])]
    /\ CallFrame

TtsReturn ==
    /\ call.state = "tts"
    /\ ~(call.i < Len(call.segments))
    /\ call' = [call EXCEPT !.state = "returned"]
    /\ CallFrame

TtsNext ==
    \/ TtsRequest
    \/ TtsRaise
    \/ TtsReturn

TtsSpec == TtsInit /\ [][TtsNext]_vars

\* how many times text t was sent to the provider
Requests(t) == Cardinality({j \in DOMAIN call.requests : call.requests[j] = t})

\* C17: within one call the provider is asked at most once for a text: a text that comes
\* a second time is served with the audio of the first time.
C17_OncePerText ==
    call.state \in {"tts", "returned", "raised"} =>
        /\ \A t \in SegmentTexts : Requests(t) <= 1
        /\ \A j, k \in DOMAIN call.audio_segments :
              call.segments[j] = call.segments[k]
                  => call.audio_segments[j] = call.audio_segments[k]

-----------------------------------------------------------------------------
(* cache_audio, get_cached_audio and cleanup_cache: two runs and one cache directory *)

\* the clock runs from 0 to MaxClock; an entry is stale after CacheTTL
MaxClock == 3
CacheTTL == 1

Runs == {1, 2}

\* the bytes the provider returned to run r for the one text both runs speak
Data(r) == IF r = 1 THEN <<1, 1>> ELSE <<2>>

\* generate_hash of that text
Hash == "sha256"

OutputFormats == {"audio", "flac"}

\* cache_dir / f"{hash_value}.{output_format}"
cache_file(hash_value, output_format) == hash_value \o "." \o output_format

IdleRun == [pc |-> "idle", fn |-> "", file |-> "", result |-> None, error |-> ""]

\* `files` are the files of the cache directory, each with its bytes and its st_atime;
\* `writer` is the run whose write to a file came last
CacheInit ==
    /\ NoRun
    /\ call = [state |-> "cache", files |-> <<>>, now |-> 0,
               runs |-> [r \in Runs |-> IdleRun], writer |-> <<>>, last |-> ""]

Exists(f) == f \in DOMAIN call.files

\* the directory with file f set to bytes d and access time t
WithFile(f, d, t) ==
    [g \in DOMAIN call.files \cup {f} |->
        IF g = f THEN [data |-> d, atime |-> t] ELSE call.files[g]]

\* file.write(data) at offset 0 of a file that holds `old`
Written(old, data) ==
    data \o (IF Len(old) > Len(data) THEN SubSeq(old, Len(data) + 1, Len(old)) ELSE <<>>)

\* cache_audio, up to open(cache_file, "wb"): the file is created, or cut to nothing
cache_audio_open(r) ==
    /\ call.state = "cache"
    /\ call.runs[r].pc = "idle"
    /\ \E output_format \in OutputFormats :
          LET f == cache_file(Hash, output_format)
          IN  call' = [call EXCEPT
                  !.files = WithFile(f, <<>>,
                                IF Exists(f) THEN call.files[f].atime ELSE call.now),
                  !.runs[r] = [IdleRun EXCEPT !.pc = "write", !.fn = "cache_audio",
                                              !.file = f],
                  !.last = "cache_audio"]
    /\ CallFrame

\* file.write(data) and the close; a file unlinked in the meantime stays unlinked
cache_audio_write(r) ==
    /\ call.state = "cache"
    /\ call.runs[r].pc = "write"
    /\ LET f == call.runs[r].file
       IN  call' = [call EXCEPT
               !.files = IF Exists(f)
                         THEN WithFile(f, Written(call.files[f].data, Data(r)),
                                       call.files[f].atime)
                         ELSE call.files,
               !.writer = [g \in DOMAIN call.writer \cup {f} |->
                              IF g = f THEN r ELSE call.writer[g]],
               !.runs[r] = [@ EXCEPT !.pc = "returned", !.result = Some(f)],
               !.last = "cache_audio"]
    /\ CallFrame

\* mkdir, open or write raises OSError: nothing in cache_audio catches it
cache_audio_raises(r) ==
    /\ call.state = "cache"
    /\ call.runs[r].pc \in {"idle", "write"}
    /\ call' = [call EXCEPT
            !.runs[r] = [@ EXCEPT !.pc = "raised", !.fn = "cache_audio",
                                  !.error = "OSError"],
            !.last = "cache_audio"]
    /\ CallFrame

\* get_cached_audio, up to cache_file.exists(); without the file the result is None
get_cached_audio_exists(r) ==
    /\ call.state = "cache"
    /\ call.runs[r].pc = "idle"
    /\ \E output_format \in OutputFormats :
          LET f == cache_file(Hash, output_format)
          IN  call' = [call EXCEPT
                  !.runs[r] = IF Exists(f)
                              THEN [IdleRun EXCEPT !.pc = "touch",
                                                   !.fn = "get_cached_audio",
                                                   !.file = f]
                              ELSE [IdleRun EXCEPT !.pc = "returned",
                                                   !.fn = "get_cached_audio",
                                                   !.file = f],
                  !.last = "get_cached_audio"]
    /\ CallFrame

\* cache_file.touch(): the access time is now; a file that is gone is created empty
get_cached_audio_touch(r) ==
    /\ call.state = "cache"
    /\ call.runs[r].pc = "touch"
    /\ LET f == call.runs[r].file
       IN  call' = [call EXCEPT
               !.files = WithFile(f, IF Exists(f) THEN call.files[f].data ELSE <<>>,
                                  call.now),
               !.runs[r] = [@ EXCEPT !.pc = "from_file"],
               !.last = "get_cached_audio"]
    /\ CallFrame

\* AudioSegment.from_file(cache_file): the bytes in the file are decoded; no bytes, or no
\* file, raises, and nothing in get_cached_audio catches it
get_cached_audio_from_file(r) ==
    /\ call.state = "cache"
    /\ call.runs[r].pc = "from_file"
    /\ LET f == call.runs[r].file
           bytes == IF Exists(f) THEN call.files[f].data ELSE <<>>
       IN  call' = [call EXCEPT
               !.runs[r] = IF bytes = <<>>
                           THEN [@ EXCEPT !.pc = "raised", !.result = Some(bytes),
                                          !.error = "CouldntDecodeError"]
                           ELSE [@ EXCEPT !.pc = "returned", !.result = Some(bytes)],
               !.last = "get_cached_audio"]
    /\ CallFrame

\* the entries cleanup_cache looks at: cache_dir.glob("*.audio")
Globbed == {f \in DOMAIN call.files : f = cache_file(Hash, "audio")}

Stale(f) == call.now - call.files[f].atime > CacheTTL

\* cleanup_cache: every globbed file not accessed within the TTL is unlinked
cleanup_cache(r) ==
    /\ call.state = "cache"
    /\ call.runs[r].pc = "idle"
    /\ LET kept == {f \in DOMAIN call.files : ~(f \in Globbed /\ Stale(f))}
       IN  call' = [call EXCEPT
               !.files = [f \in kept |-> call.files[f]],
               !.runs[r] = [IdleRun EXCEPT !.pc = "returned", !.fn = "cleanup_cache"],
               !.last = "cleanup_cache"]
    /\ CallFrame

\* the run goes on to its next call
NextCall(r) ==
    /\ call.state = "cache"
    /\ call.runs[r].pc = "returned"
    /\ call' = [call EXCEPT !.runs[r] = IdleRun, !.last = ""]
    /\ CallFrame

\* time passes
Clock ==
    /\ call.state = "cache"
    /\ call.now < MaxClock
    /\ call' = [call EXCEPT !.now = @ + 1, !.last = ""]
    /\ CallFrame

CacheNext ==
    \/ \E r \in Runs :
          \/ cache_audio_open(r)
          \/ cache_audio_write(r)
          \/ cache_audio_raises(r)
          \/ get_cached_audio_exists(r)
          \/ get_cached_audio_touch(r)
          \/ get_cached_audio_from_file(r)
          \/ cleanup_cache(r)
          \/ NextCall(r)
    \/ Clock

CacheSpec == CacheInit /\ [][CacheNext]_vars

\* C18: no call of cache_audio or get_cached_audio ends with an exception that reaches
\* the run: a failed store is logged and passed over, a failed lookup is a miss.
C18_CacheFailureNonFatal ==
    call.state = "cache" =>
        \A r \in Runs : call.runs[r].pc # "raised"

\* C19: right after cleanup_cache no entry of the cache directory, of whatever output
\* format, has an access time older than the TTL.
C19_SweepRemovesStale ==
    (call.state = "cache" /\ call.last = "cleanup_cache") =>
        \A f \in DOMAIN call.files : ~Stale(f)

\* C20: with no I/O failure, a lookup ends in a miss or in the complete bytes some run
\* stored, never in an exception or in an empty or mixed entry; and when no store is
\* under way an entry holds the complete bytes of the run that wrote last.
C20_ConcurrentCacheSafe ==
    (call.state = "cache" /\ \A r \in Runs : call.runs[r].error # "OSError") =>
        /\ \A r \in Runs :
              call.runs[r].fn = "get_cached_audio" =>
                  /\ call.runs[r].pc # "raised"
                  /\ call.runs[r].pc = "returned" =>
                        \/ call.runs[r].result = None
                        \/ call.runs[r].result \in {Some(Data(w)) : w \in Runs}
        /\ \A f \in DOMAIN call.files :
              (f \in DOMAIN call.writer /\ \A r \in Runs : call.runs[r].pc # "write")
                  => call.files[f].data = Data(call.writer[f])

-----------------------------------------------------------------------------
(* Properties of one call of the mixing function, under MixSpec *)

Returned == call.state = "returned"

CallSfx == len(call.sfx_audio)
CallSpeech == len(call.speech_audio)
CallNone == Lower(call.timing) = "none"
CallOffset == IntOf(call.timing)

\* every sample of the narration that is drawn sounds in the clip exactly once, in order
\* from position `start` on
NarrationWholeFrom(combined, speech_audio, start) ==
    /\ Amount(combined, "speech") = len(speech_audio)
    /\ \A t \in Durations \cup {len(speech_audio) - 1} :
          (0 <= t /\ t < len(speech_audio))
              => Positions(combined, "speech", t, 0) = {start + t}

\* C5: with the timing "none" the combined clip is exactly len(sfx) + len(speech) long,
\* for every cue and narration length.
C5_NoneLength ==
    (Returned /\ CallNone) => len(call.combined_audio) = CallSfx + CallSpeech

C5_Witness ==
    /\ Returned /\ call.timing = "None"
    /\ CallSfx = 4 * Tick /\ CallSpeech = 6 * Tick
    /\ len(call.combined_audio) = 10 * Tick

\* C6: with an offset past the end of the cue the combined clip is
\* len(sfx) + (offset - len(sfx)) + len(speech) = offset + len(speech) long, the cue is
\* followed by offset - len(sfx) of silence, and the narration starts at offset.
C6_PaddedLength ==
    (Returned /\ ~CallNone /\ CallOffset > CallSfx) =>
        /\ len(call.combined_audio) = CallSfx + (CallOffset - CallSfx) + CallSpeech
        /\ len(call.combined_audio) = CallOffset + CallSpeech
        /\ Slice(call.combined_audio, 0, CallSfx) = call.sfx_audio
        /\ Slice(call.combined_audio, CallSfx, CallOffset) = silent(CallOffset - CallSfx)
        /\ NarrationWholeFrom(call.combined_audio, call.speech_audio, CallOffset)
        /\ call.speech_start_time = call.start_offset + CallOffset

\* sfx 2000 ms, speech 3000 ms, offset "2500": 5500 ms, the narration at "00:02.50"
C6_Witness ==
    /\ Returned /\ call.timing = "2500" /\ call.start_offset = 0
    /\ CallSfx = 2000 /\ CallSpeech = 3000
    /\ len(call.combined_audio) = 5500
    /\ call.speech_start_time = 2500
    /\ TimestampText(format_timestamp(call.speech_start_time)) = "00:02.50"

\* C7: with 0 <= offset <= len(sfx) the combined clip is max(len(sfx), offset + len(speech))
\* long: len(sfx) when the narration fits, offset + len(speech) when it runs past the end
\* of the cue; every millisecond of the narration is in the clip.
C7_OverlaidLength ==
    (Returned /\ ~CallNone /\ CallOffset <= CallSfx) =>
        /\ len(call.combined_audio) = Max(CallSfx, CallOffset + CallSpeech)
        /\ (CallOffset + CallSpeech <= CallSfx => len(call.combined_audio) = CallSfx)
        /\ (CallOffset + CallSpeech > CallSfx
                => len(call.combined_audio) = CallOffset + CallSpeech)
        /\ NarrationWholeFrom(call.combined_audio, call.speech_audio, CallOffset)
        /\ Amount(call.combined_audio, "sfx") = CallSfx

\* the narration starts inside the cue and runs past its end: part overlaid, part appended
C7_Witness ==
    /\ Returned /\ call.timing = "2500"
    /\ CallSfx = 3000 /\ CallSpeech = 1000
    /\ len(call.combined_audio) = 3500
    /\ Amount(Slice(call.combined_audio, 0, 3000), "speech") = 500
    /\ Amount(Slice(call.combined_audio, 3000, 3500), "speech") = 500

-----------------------------------------------------------------------------
(* Properties of the mixing loop, under Spec *)

\* every cue is immediately followed by one narration section
WellFormed(script) ==
    \A i \in DOMAIN script :
        IsPlaceholder(script[i]) => (i < Len(script) /\ ~IsPlaceholder(script[i + 1]))

\* the cue's file is found, as named or as a numbered sibling
CueResolves(k) ==
    /\ AUDIO_FILES_ENV[k] \in DOMAIN environ
    /\ get_random_file(environ[AUDIO_FILES_ENV[k]]) # {None}

LastIsCue == script_sections # <<>> /\ IsPlaceholder(script_sections[Len(script_sections)])

LastCueKey == placeholder_to_key[script_sections[Len(script_sections)]]

\* the loop has been left without an exception
LoopCompleted ==
    pc \in {"bed", "bed_loop", "export", "azuracast", "azuracast_metadata", "s3", "file", "done"}

\* how many narration sections there are among sections 0..i
NarrationOrdinal(i) ==
    Cardinality({j \in 0..i : ~IsPlaceholder(script_sections[j + 1])})

\* the position at which the first sample of vo_segments[seg] sounds in the timeline
VoicePositions(seg) == Positions(final_audio, VoiceOf(vo_segments_text[seg + 1]), 0, 0)

\* the start of the narration inside the combined clip of step m
NarrationStart(m) == IF Lower(m.timing) = "none" THEN m.sfx ELSE IntOf(m.timing)

\* C1: every narration section is mixed with the audio synthesized for that section: the
\* k-th narration section is paired with the k-th synthesized segment, and once the loop
\* is over each synthesized segment has been consumed exactly once.
C1_NarrationOwnAudio ==
    /\ \A j \in DOMAIN mixlog :
          /\ ~IsPlaceholder(script_sections[mixlog[j].index + 1])
          /\ mixlog[j].seg + 1 = NarrationOrdinal(mixlog[j].index)
          /\ vo_segments_text[mixlog[j].seg + 1]
                = process_text_for_tts(script_sections[mixlog[j].index + 1])
    /\ LoopCompleted =>
          \A k \in DOMAIN vo_segments :
              Cardinality({j \in DOMAIN mixlog : mixlog[j].seg + 1 = k}) = 1

\* C2: for a well-formed script the timestamps appended to the lyrics are non-decreasing.
C2_TimestampsMonotone ==
    WellFormed(script_sections) =>
        \A j \in DOMAIN timestamps :
            j > 1 => TimestampOrder(timestamps[j - 1]) <= TimestampOrder(timestamps[j])

\* a well-formed script of two pairs, mixed to the end, the second narration later
C2_Witness ==
    /\ WellFormed(script_sections)
    /\ pc = "done"
    /\ Len(timestamps) = 2
    /\ mixlog[1].kind = "paired" /\ mixlog[2].kind = "paired"
    /\ Lower(mixlog[2].timing) # "none"
    /\ TimestampOrder(timestamps[1]) < TimestampOrder(timestamps[2])

\* C3: for a (cue, narration) pair the timestamp recorded is the cursor before the append
\* plus the start of the narration inside the combined clip: len(sfx) when the timing is
\* "none", the offset otherwise; the narration that was mixed sounds from there.
C3_PairedTimestamp ==
    \A j \in DOMAIN mixlog :
        mixlog[j].kind = "paired" =>
            /\ timestamps[j] = format_timestamp(mixlog[j].cursor + NarrationStart(mixlog[j]))
            /\ VoicePositions(mixlog[j].seg) = {mixlog[j].cursor + NarrationStart(mixlog[j])}

\* sfx 3000 ms, speech 1000 ms, offset 500 at cursor 0: "00:00.50", clip of 3000 ms
C3_Witness ==
    /\ Len(mixlog) >= 1
    /\ mixlog[1].kind = "paired" /\ mixlog[1].cursor = 0
    /\ mixlog[1].sfx = 3000 /\ mixlog[1].speech = 1000 /\ mixlog[1].timing = "500"
    /\ mixlog[1].combined = 3000
    /\ TimestampText(timestamps[1]) = "00:00.50"

\* C4: for a narration section on its own the timestamp recorded is the cursor before the
\* narration is appended, the position at which it begins.
C4_PlainTimestamp ==
    \A j \in DOMAIN mixlog :
        mixlog[j].kind = "plain" => timestamps[j] = format_timestamp(mixlog[j].cursor)

C9_CueNeverNarration ==
    /\ \A j \in DOMAIN lyrics_text : ~IsPlaceholder(lyrics_text[j])
    /\ \A j \in DOMAIN mixlog : ~IsPlaceholder(script_sections[mixlog[j].index + 1])

\* C10: a cue whose file is not found does not fail the run: the cue is skipped, the
\* sections after it are mixed and the loop runs to its end.
C10_UnresolvedCueSkipped ==
    (WellFormed(script_sections) /\ \E k \in CueKeys(script_sections) : ~CueResolves(k))
        => ~(pc = "failed" /\ error \in {"IndexError", "ValueError"})

-----------------------------------------------------------------------------
(* Properties of the article span and the music bed, under Spec *)

\* the cue of a (cue, narration) step
CueOf(m) == placeholder_to_key[script_sections[m.index]]

\* the steps that mixed a cue of key k, in the order of the loop
CueSteps(k) == {j \in DOMAIN mixlog : mixlog[j].kind = "paired" /\ CueOf(mixlog[j]) = k}

PlainSteps == {j \in DOMAIN mixlog : mixlog[j].kind = "plain"}

FirstOf(steps) == CHOOSE j \in steps : \A i \in steps : j <= i

\* the loop has been left and the bed stage is over
BedStageOver == pc \in {"export", "azuracast", "azuracast_metadata", "s3", "file", "done"}

\* C11: once the loop is over, article_start_time is the position at which the narration
\* paired with the first mixed ARTICLE START cue begins (the cursor plus len(sfx) for
\* "none", plus the offset otherwise), whatever precedes the cue; without such a cue in
\* the script it is the start of the first narration on its own, if there is one.
C11_ArticleStart ==
    LoopCompleted =>
        IF CueSteps("FIRST") # {}
        THEN LET m == mixlog[FirstOf(CueSteps("FIRST"))]
             IN  article_start_time = Some(m.cursor + NarrationStart(m))
        ELSE IF "FIRST" \notin CueKeys(script_sections) /\ PlainSteps # {}
        THEN article_start_time = Some(mixlog[FirstOf(PlainSteps)].cursor)
        ELSE article_start_time = None

\* C12: article_end_time is the cursor at which the combined clip of the first mixed OUTRO
\* cue begins, where the cue's file sounds from its first sample; it is unset as long as
\* no OUTRO cue has been mixed, and later OUTRO cues leave it as it is.
C12_ArticleEnd ==
    IF CueSteps("OUTRO") = {}
    THEN article_end_time = None
    ELSE LET m == mixlog[FirstOf(CueSteps("OUTRO"))]
         IN  /\ article_end_time = Some(m.cursor)
             /\ m.cursor \in Positions(final_audio, audio_files["OUTRO"], 0, 0)

\* two OUTRO cues are mixed, the second later than the first
C12_Witness ==
    /\ pc = "done"
    /\ Cardinality(CueSteps("OUTRO")) = 2
    /\ \E j \in CueSteps("OUTRO") :
          /\ j # FirstOf(CueSteps("OUTRO"))
          /\ mixlog[j].cursor > article_end_time[1]

\* C13: whenever the bed stage has run, the bed clip that was overlaid is exactly
\* article_end_time - article_start_time long.
C13_BedLength ==
    (BedStageOver /\ BedRuns) => len(looped_bed_audio) = bed_duration

\* C14: a run whose article ends before it starts never gets past the bed stage: nothing
\* is exported and nothing is published.
C14_NegativeBedFatal ==
    (LoopCompleted /\ BedRuns /\ bed_duration < 0) => (~BedStageOver /\ published = {})

\* C15: the timeline is as long after the bed stage as the mixing loop left it, for every
\* bed offset; the position of the overlay is never negative, and the bed sounds from
\* there whenever that position is inside the timeline.
C15_BedKeepsLength ==
    /\ LoopCompleted => len(final_audio) = total_elapsed_time
    /\ BedRuns =>
          /\ adjusted_article_start_time >= 0
          /\ adjusted_article_start_time = Max(0, article_start_time[1] + bed_offset)
    /\ (BedStageOver /\ BedRuns /\ bed_duration > 0
            /\ adjusted_article_start_time < len(final_audio))
          => adjusted_article_start_time \in Positions(final_audio, bed_file[1], 0, 0)

\* the bed is configured to start before the timeline does, and is overlaid from 0
C15_Witness ==
    /\ pc = "done" /\ BedRuns
    /\ article_start_time[1] + bed_offset < 0
    /\ bed_duration > len(from_file(bed_file[1]))
    /\ 0 \in Positions(final_audio, bed_file[1], 0, 0)
    /\ len(final_audio) = total_elapsed_time

\* C16: without a bed file, an article start or an article end the bed stage leaves the
\* timeline as the loop produced it, with no bed in it, and the run goes on to the
\* export; with all three, an instant of 0 included, the bed is overlaid.
C16_BedSkipped ==
    BedStageOver =>
        IF bed_file = None \/ article_start_time = None \/ article_end_time = None
        THEN /\ Amount(final_audio, BasePath("BED")) = 0
             /\ looped_bed_audio = empty
             /\ len(final_audio) = total_elapsed_time
        ELSE (bed_duration > 0 /\ adjusted_article_start_time < len(final_audio))
                => Amount(final_audio, bed_file[1]) > 0

\* the bed file is there and the article starts at 0, but no OUTRO cue was mixed
C16_Witness ==
    /\ pc = "done"
    /\ bed_file # None
    /\ article_start_time = Some(0)
    /\ article_end_time = None
    /\ final_audio # empty
    /\ Amount(final_audio, BasePath("BED")) = 0

-----------------------------------------------------------------------------
(* Properties of the whole run, under Spec *)

\* C23: no run has both failed and published something: every fatal error comes before
\* the first upload or file write.
C23_NoPublishThenFail ==
    pc = "failed" => published = {}

\* C24: a script of zero sections never gets as far as the synthesis call having
\* returned: the run fails before it, and nothing is published.
C24_EmptyScriptAborts ==
    script_sections = <<>> =>
        (pc \in {"check_audio_files", "synthesize", "failed"} /\ published = {})

\* C25: the cursor is the length of the timeline: every step that appends a clip moves
\* it forward by the length of that clip, to the cursor of the next step, and it never
\* goes back.
C25_CursorIsLength ==
    /\ len(final_audio) = total_elapsed_time
    /\ \A j \in DOMAIN mixlog :
          /\ mixlog[j].combined >= 0
          /\ mixlog[j].cursor + mixlog[j].combined =
                (IF j < Len(mixlog) THEN mixlog[j + 1].cursor ELSE total_elapsed_time)

\* a narration on its own and a pair, to the end of the run
C25_Witness ==
    /\ pc = "done"
    /\ Len(mixlog) = 2
    /\ mixlog[1].kind = "plain" /\ mixlog[2].kind = "paired"
    /\ mixlog[2].cursor = mixlog[1].speech
    /\ total_elapsed_time = mixlog[1].speech + mixlog[2].combined
    /\ len(final_audio) = total_elapsed_time

\* C28: an iteration of the mixing loop raises, or moves current_index forward by 1 or
\* 2 and never past the end of the script; the loop is left only at the end of the
\* script; there are at most as many iterations as the script has sections (each adds 1
\* to current_speech_segment), and no section is mixed twice.
C28_LoopAdvances ==
    [][pc = "mix" =>
          /\ pc' \in {"mix", "failed", "bed"}
          /\ pc' = "bed" => (current_index = Len(script_sections) /\ current_index' = current_index)
          /\ pc' = "mix" =>
                /\ current_index' \in {current_index + 1, current_index + 2}
                /\ current_index' <= Len(script_sections)
                /\ current_speech_segment' = current_speech_segment + 1
                /\ current_speech_segment' <= Len(script_sections)
                /\ \A j \in DOMAIN mixlog' :
                      j > 1 => mixlog'[j - 1].index < mixlog'[j].index]_vars

\* a script of MaxSections sections is mixed to its end in three iterations
C28_Witness ==
    /\ pc = "bed"
    /\ Len(script_sections) = MaxSections
    /\ current_index = Len(script_sections)
    /\ current_speech_segment = MaxSections - 1

-----------------------------------------------------------------------------
(* The bed loop on its own *)

\* the loop starts from the empty clip, for every bed clip and every bed duration
BedLoopInit ==
    /\ NoRun
    /\ \E n \in Durations, d \in Offsets :
          call = [state |-> "bed_loop", bed_audio |-> Clip("bed", n), bed_duration |-> d,
                  looped_bed_audio |-> empty]

\* while len(looped_bed_audio) < bed_duration: looped_bed_audio += bed_audio
BedLoopRepeat ==
    /\ call.state = "bed_loop"
    /\ len(call.looped_bed_audio) < call.bed_duration
    /\ call' = [call EXCEPT !.looped_bed_audio = Concat(@, call.bed_audio)]
    /\ CallFrame

\* looped_bed_audio = looped_bed_audio[:bed_duration]
BedLoopCut ==
    /\ call.state = "bed_loop"
    /\ ~(len(call.looped_bed_audio) < call.bed_duration)
    /\ call' = [call EXCEPT !.state = "cut",
                            !.looped_bed_audio = Slice(@, 0, call.bed_duration)]
    /\ CallFrame

BedLoopNext ==
    \/ BedLoopRepeat
    \/ BedLoopCut

\* the program is sequential: it takes its next step whenever it has one
BedLoopSpec == BedLoopInit /\ [][BedLoopNext]_vars /\ WF_vars(BedLoopNext)

\* C29: the bed loop is left after finitely many concatenations, for every bed clip (one
\* of length 0 included) and every bed duration.
C29_BedLoopTerminates ==
    <>(call.state = "cut")

-----------------------------------------------------------------------------
(* format_timestamp on its own *)

\* the start times drawn, in ms: around the end of the first and of the second minute
StartTimes == (59900..60100) \cup (119900..120100)

FormatInit ==
    /\ NoRun
    /\ \E ms \in StartTimes :
          call = [state |-> "called", ms |-> ms, timestamp |-> format_timestamp(0)]

FormatCall ==
    /\ call.state = "called"
    /\ call' = [call EXCEPT !.state = "returned", !.timestamp = format_timestamp(call.ms)]
    /\ CallFrame

FormatNext == FormatCall

FormatSpec == FormatInit /\ [][FormatNext]_vars

\* C30: the seconds field of a formatted start time is between 00.00 and 59.99 and the
\* minutes field is floor(ms / 60000), for every start time that is not half-way between
\* two hundredths (where the binary fraction decides the rounding).
C30_SecondsBelowSixty ==
    (call.state = "returned" /\ call.ms % 10 # 5) =>
        /\ call.timestamp.minutes = call.ms \div 60000
        /\ call.timestamp.hundredths >= 0
        /\ call.timestamp.hundredths <= 5999

-----------------------------------------------------------------------------
(* AzuraCastClient._perform_request *)

RETRY_COUNT == 5

\* what the server answers to an attempt: a status, or nothing at all (0)
Statuses == {0, 200, 404, 500, 503}

RetryInit ==
    /\ NoRun
    /\ \E responses \in [1..RETRY_COUNT -> Statuses] :
          call = [state |-> "request", responses |-> responses, attempt |-> 0,
                  status_code |-> None]

\* requests.Response.__bool__: the response is truthy when its status is below 400
Truthy(status) == status # 0 /\ status < 400

\* e.response.status_code if e.response else None
status_code_of(status) == IF Truthy(status) THEN Some(status) ELSE None

\* one pass of `for attempt in range(RETRY_COUNT)`: the request, and on a
\* RequestException the retry (after the sleep) or the raise
PerformRequestAttempt ==
    /\ call.state = "request"
    /\ call.attempt < RETRY_COUNT
    /\ LET status == call.responses[call.attempt + 1]
           status_code == status_code_of(status)
       IN  call' =
             IF status = 200
             THEN [call EXCEPT !.state = "returned", !.attempt = @ + 1]
             ELSE IF status_code \in {Some(500), Some(502), Some(503), Some(504)}
                     /\ call.attempt < RETRY_COUNT - 1
             THEN [call EXCEPT !.attempt = @ + 1, !.status_code = status_code]
             ELSE [call EXCEPT !.state = "raised", !.attempt = @ + 1,
                               !.status_code = status_code]
    /\ CallFrame

RetryNext == PerformRequestAttempt

RetrySpec == RetryInit /\ [][RetryNext]_vars

\* the attempt at which the request is to end: the first whose answer is not one of
\* 500, 502, 503, 504, or the last one
Retryable(status) == status \in {500, 502, 503, 504}

DecidingAttempt ==
    LET final == {k \in 1..RETRY_COUNT : ~Retryable(call.responses[k])}
    IN  IF final = {} THEN RETRY_COUNT ELSE CHOOSE k \in final : \A j \in final : k <= j

\* C27: a request answered 500, 502, 503 or 504 is tried again, until an attempt
\* succeeds or fails otherwise or RETRY_COUNT attempts have failed; there are never more
\* than RETRY_COUNT attempts.
C27_RetriesOnServerError ==
    call.state \in {"returned", "raised"} =>
        /\ call.attempt <= RETRY_COUNT
        /\ call.attempt = DecidingAttempt
        /\ call.state = "returned" <=> call.responses[DecidingAttempt] = 200

-----------------------------------------------------------------------------
(* elevenlabs_segments_to_speech *)

MaxSegments == 5

ElevenLists == UNION {[1..n -> SegmentTexts] : n \in 0..MaxSegments}

\* " ".join(texts)
RECURSIVE Join(_)
Join(texts) ==
    IF texts = <<>> THEN ""
    ELSE IF Len(texts) = 1 THEN texts[1]
    ELSE texts[1] \o " " \o Join(Tail(texts))

\* ids[-3:] without the cut
LastThree_All(ids) == ids

\* ids[-3:]
LastThree(ids) == IF Len(ids) <= 3 THEN ids ELSE SubSeq(ids, Len(ids) - 2, Len(ids))

\* the id the provider gives the k-th request it answers
RequestId(k) == "request-" \o ToString(k)

\* `requests` are the bodies posted, in the order of posting
ElevenInit ==
    /\ NoRun
    /\ \E segments \in ElevenLists :
          call = [state |-> "voices", segments |-> segments, i |-> 0,
                  audio_segments |-> <<>>, previous_request_ids |-> <<>>,
                  requests |-> <<>>, result |-> None]

\* the list of voices is fetched and the voice is in it
ElevenVoices ==
    /\ call.state = "voices"
    /\ call' = [call EXCEPT !.state = "loop"]
    /\ CallFrame

\* the fetch raises RequestException (None is returned), or the voice is not in the
\* list (ValueError)
ElevenVoicesFail ==
    /\ call.state = "voices"
    /\ \E outcome \in {"returned", "raised"} : call' = [call EXCEPT !.state = outcome]
    /\ CallFrame

\* the body of the i-th request
ElevenBody ==
    LET i == call.i
        n == Len(call.segments)
    IN  [text |-> call.segments[i + 1],
         previous_request_ids |-> LastThree(call.previous_request_ids),
         previous_text |-> IF i = 0 THEN None
                           ELSE Some(Join(SubSeq(call.segments, 1, i))),
         next_text |-> IF i = n - 1 THEN None
                       ELSE Some(Join(SubSeq(call.segments, i + 2, n)))]

\* one iteration: the post is answered 200, its id and its audio are appended
ElevenRequest ==
    /\ call.state = "loop"
    /\ call.i < Len(call.segments)
    /\ \E n \in SpeechLens :
          LET id == RequestId(Len(call.requests) + 1)
          IN  call' = [call EXCEPT
                  !.requests = Append(@, ElevenBody),
                  !.previous_request_ids = Append(@, id),
                  !.audio_segments = Append(@, Clip(id, n)),
                  !.i = @ + 1]
    /\ CallFrame

\* the post is answered otherwise: RuntimeError
ElevenRequestFails ==
    /\ call.state = "loop"
    /\ call.i < Len(call.segments)
    /\ call' = [call EXCEPT !.state = "raised", !.requests = Append(@, ElevenBody)]
    /\ CallFrame

ElevenReturn ==
    /\ call.state = "loop"
    /\ ~(call.i < Len(call.segments))
    /\ call' = [call EXCEPT !.state = "returned", !.result = Some(call.audio_segments)]
    /\ CallFrame

ElevenNext ==
    \/ ElevenVoices
    \/ ElevenVoicesFail
    \/ ElevenRequest
    \/ ElevenRequestFails
    \/ ElevenReturn

ElevenSpec == ElevenInit /\ [][ElevenNext]_vars

\* the ids of the requests before the j-th, the three latest at most
EarlierIds(j) ==
    [k \in 1..Min(3, j - 1) |-> RequestId(Max(0, j - 1 - 3) + k)]

\* C26: the requests are posted one at a time in the order of the segments, the next
\* one only once the one before has been answered with audio; the j-th carries segment
\* j, the joined text of the segments before it and after it, and the ids of the (at
\* most three) latest requests before it; the list returned has the audio of the j-th
\* request in place j.
C26_ElevenLabsInOrder ==
    call.state \in {"loop", "returned", "raised"} =>
        /\ Len(call.requests) <= Len(call.segments)
        /\ Len(call.audio_segments) <= Len(call.requests)
        /\ Len(call.requests) <= Len(call.audio_segments) + 1
        /\ Len(call.requests) > Len(call.audio_segments) => call.state = "raised"
        /\ \A j \in DOMAIN call.requests :
              LET r == call.requests[j]
              IN  /\ r.text = call.segments[j]
                  /\ r.previous_text =
                        (IF j = 1 THEN None
                         ELSE Some(Join([k \in 1..(j - 1) |-> call.segments[k]])))
                  /\ r.next_text =
                        (IF j = Len(call.segments) THEN None
                         ELSE Some(Join([k \in 1..(Len(call.segments) - j) |->
                                            call.segments[j + k]])))
                  /\ r.previous_request_ids = EarlierIds(j)
                  /\ Len(r.previous_request_ids) <= 3
        /\ \A j \in DOMAIN call.audio_segments :
              Amount(call.audio_segments[j], RequestId(j)) = len(call.audio_segments[j])
        /\ call.state = "returned" /\ call.result # None =>
              /\ call.result[1] = call.audio_segments
              /\ Len(call.result[1]) = Len(call.segments)

\* five segments: the fifth request carries the ids of the second, third and fourth
C26_Witness ==
    /\ call.state = "returned"
    /\ call.result # None
    /\ Len(call.segments) = 5
    /\ Len(call.requests) = 5
    /\ call.requests[5].previous_request_ids
          = <<RequestId(2), RequestId(3), RequestId(4)>>
    /\ call.requests[5].next_text = None
    /\ call.requests[1].previous_text = None

-----------------------------------------------------------------------------
(* replaygain: calculate_replaygain and process_replaygain *)

\* a line of ffmpeg's stderr: padded with blanks or not; the line "{", the line "}", a
\* member line ("key" : "value",), a member line that opens an object ("key" : {), or
\* anything else
StderrLine(kind, key, value, pad) == [kind |-> kind, key |-> key, value |-> value, pad |-> pad]

OpenLine(pad) == StderrLine("{", "", "", pad)
CloseLine(pad) == StderrLine("}", "", "", pad)
Member(key, value) == StderrLine("member", key, value, TRUE)
NestedOpen(key) == StderrLine("member{", key, "", TRUE)
NoiseLine == StderrLine("noise", "", "", FALSE)

\* line.strip()
strip(line) == [line EXCEPT !.pad = FALSE]

\* the values loudnorm prints for input_i and input_tp
Measured == {"-23.0", "nan", "inf", "-inf"}

\* the member lines of a flat object: input_i, input_tp and R128_TRACK_GAIN, each there
\* or not
Members(input_i, input_tp, r128) ==
    (IF input_i = "missing" THEN <<>> ELSE <<Member("input_i", input_i)>>)
    \o (IF input_tp = "missing" THEN <<>> ELSE <<Member("input_tp", input_tp)>>)
    \o (IF r128 = "missing" THEN <<>> ELSE <<Member("R128_TRACK_GAIN", r128)>>)

\* what stderr holds between the banner and the end: nothing, a flat object, an object
\* with an object inside, or braces around something that is not JSON
StderrBodies ==
    {<<>>}
    \cup {<<OpenLine(pad)>> \o Members(i, tp, r) \o <<CloseLine(pad)>> :
             pad \in BOOLEAN, i \in Measured \cup {"missing"},
             tp \in Measured \cup {"missing"}, r \in {"missing", "0"}}
    \cup {<<OpenLine(FALSE), Member("input_i", "-23.0"), NestedOpen("extra"),
            Member("x", "1"), CloseLine(TRUE), Member("input_tp", "-2.0"),
            CloseLine(FALSE)>>}
    \cup {<<OpenLine(FALSE), NoiseLine, CloseLine(FALSE)>>}

StderrLines ==
    {pre \o body \o post : pre \in {<<>>, <<NoiseLine>>}, body \in StderrBodies,
                           post \in {<<>>, <<NoiseLine>>, <<OpenLine(FALSE)>>}}

\* the loop over err.decode().splitlines(): json_output as the stripped lines taken, in
\* order (they are concatenated without separators)
RECURSIVE ScanLines(_, _, _)
ScanLines(lines, json_output, json_lines) ==
    IF lines = <<>> THEN json_output
    ELSE LET line == strip(Head(lines))
         IN  IF line = OpenLine(FALSE)
             THEN ScanLines(Tail(lines), Append(json_output, line), TRUE)
             ELSE IF json_lines
             THEN ScanLines(Tail(lines), Append(json_output, line),
                            line # CloseLine(FALSE))
             ELSE ScanLines(Tail(lines), json_output, FALSE)

\* the nesting depth after each line of a text, 0 before the first
RECURSIVE DepthAfter(_, _)
DepthAfter(text, k) ==
    IF k = 0 THEN 0
    ELSE DepthAfter(text, k - 1)
         + (IF text[k].kind \in {"{", "member{"} THEN 1
            ELSE IF text[k].kind = "}" THEN 0 - 1 ELSE 0)

\* json.loads accepts the text: one object, opened by the first line and closed by the
\* last, with members and nested objects inside
Decodable(text) ==
    /\ Len(text) >= 2
    /\ text[1].kind = "{"
    /\ \A k \in 2..Len(text) : text[k].kind \in {"member", "member{", "}"}
    /\ \A k \in 1..(Len(text) - 1) : DepthAfter(text, k) >= 1
    /\ DepthAfter(text, Len(text)) = 0

\* parsed_data.get(key, default): the last top-level member of that name
dict_get_or(text, key, default) ==
    LET at == {k \in DOMAIN text : text[k].kind = "member" /\ text[k].key = key
                                      /\ DepthAfter(text, k) = 1}
    IN  IF at = {} THEN default
        ELSE text[CHOOSE k \in at : \A j \in at : j <= k].value

GainInit ==
    /\ NoRun
    /\ \E lines \in StderrLines, returncode \in {0, 1} :
          call = [state |-> "called", returncode |-> returncode, lines |-> lines,
                  json_output |-> <<>>, gain |-> "", peak |-> "", applied |-> FALSE,
                  error |-> ""]

\* calculate_replaygain, from the return of ffmpeg on
calculate_replaygain ==
    /\ call.state = "called"
    /\ LET json_output == ScanLines(call.lines, <<>>, FALSE)
           gain == dict_get_or(json_output, "input_i", "nan")
           peak == dict_get_or(json_output, "input_tp", "nan")
       IN  call' =
             IF call.returncode # 0
             THEN [call EXCEPT !.state = "raised", !.error = "CalledProcessError"]
             ELSE IF json_output = <<>>
             THEN [call EXCEPT !.state = "raised", !.error = "RuntimeError"]
             ELSE IF ~Decodable(json_output)
             THEN [call EXCEPT !.state = "raised", !.error = "JSONDecodeError",
                               !.json_output = json_output]
             ELSE IF gain = "nan" \/ peak = "nan"
             THEN [call EXCEPT !.state = "raised", !.error = "RuntimeError",
                               !.json_output = json_output, !.gain = gain,
                               !.peak = peak]
             ELSE [call EXCEPT !.state = "calculated", !.json_output = json_output,
                               !.gain = gain, !.peak = peak]
    /\ CallFrame

\* process_replaygain after calculate_replaygain: int((gain - 1.0) * 256) raises
\* OverflowError on an infinity; otherwise apply_replaygain runs and its output is
\* returned
process_replaygain ==
    /\ call.state = "calculated"
    /\ call' =
          IF dict_get_or(call.json_output, "R128_TRACK_GAIN", "missing") = "missing"
             /\ call.gain \in {"inf", "-inf"}
          THEN [call EXCEPT !.state = "raised", !.error = "OverflowError"]
          ELSE [call EXCEPT !.state = "returned", !.applied = TRUE]
    /\ CallFrame

GainNext ==
    \/ calculate_replaygain
    \/ process_replaygain

GainSpec == GainInit /\ [][GainNext]_vars

NonFinite(value) == value \in {"nan", "inf", "-inf"}

\* C21: when ffmpeg's output holds no JSON that can be parsed, or the input_i or
\* input_tp it reports is not a finite number, apply_replaygain is never run and nothing
\* is returned.
C21_NonFiniteIsFatal ==
    (call.state \in {"calculated", "returned", "raised"} /\ call.returncode = 0
        /\ LET text == ScanLines(call.lines, <<>>, FALSE)
           IN  \/ ~Decodable(text)
               \/ NonFinite(dict_get_or(text, "input_i", "nan"))
               \/ NonFinite(dict_get_or(text, "input_tp", "nan")))
        => (~call.applied /\ call.state # "returned")

\* the first line that is "{"
FirstOpen(lines) ==
    LET at == {k \in DOMAIN lines : strip(lines[k]) = OpenLine(FALSE)}
    IN  IF at = {} THEN 0 ELSE CHOOSE k \in at : \A j \in at : k <= j

\* the line "}" that closes the object opened at line `from`, or the last line
MatchingClose(lines, from) ==
    LET span == [k \in 1..(Len(lines) - from + 1) |-> lines[from + k - 1]]
        at == {k \in DOMAIN span : DepthAfter(span, k) = 0}
    IN  IF at = {} THEN Len(lines)
        ELSE from - 1 + CHOOSE k \in at : \A j \in at : k <= j

\* the lines from the opening line through its matching closing line, stripped
JsonSpan(lines) ==
    IF FirstOpen(lines) = 0 THEN <<>>
    ELSE [k \in 1..(MatchingClose(lines, FirstOpen(lines)) - FirstOpen(lines) + 1) |->
             strip(lines[FirstOpen(lines) + k - 1])]

\* C22: the text given to json.loads is the lines from the line "{" through the
\* matching line "}", in order, and nothing of the lines before or after them.
C22_OnlyTheJsonSpan ==
    (call.state \in {"calculated", "returned", "raised"}
        /\ call.error \in {"", "JSONDecodeError", "OverflowError"})
        => call.json_output = JsonSpan(call.lines)

====
